---------------------------- MODULE Spec2Model ----------------------------
(***************************************************************************)
(* A model of the paged search executor of src/cse_executor.py:            *)
(* cse_search_paged and the helpers it uses (normalize_url, dedup_results, *)
(* classify_cse_error, should_retry, rate_limit_sleep), is_domain_scoped,  *)
(* and the CSE batch loop of main in src/maintest.py.                      *)
(*                                                                         *)
(* Text is modelled as a sequence of tokens (words, numbers, punctuation), *)
(* a Python substring test  "w1 w2" in m  as the test that the tokens of   *)
(* the phrase occur consecutively in the lower-cased message.              *)
(* A URL is modelled by the six components urlparse splits it into, plus   *)
(* whether the raw string carries surrounding whitespace and whether       *)
(* urlparse raises on it.                                                  *)
(***************************************************************************)
EXTENDS Integers, Sequences, FiniteSets, TLC

VARIABLES
    pc,             \* position of the run: see PcValues
    total_results,  \* cse_search_paged parameter, after max(1, int(.))
    retries,        \* cse_search_paged parameter (attempts per page)
    corpus,         \* what the backend's index holds for this query
    results,        \* local list `results`
    start,          \* local `start`
    rank,           \* local `rank`
    num,            \* local `num` of the current page
    attempt,        \* loop variable `attempt` of the current page
    err,            \* text of the failure being handled (`err` / `last_err`)
    returned,       \* the list handed back to the caller (<<>> before that)
    error,          \* text of the RuntimeError raised to the caller
    calls,          \* history: number of _cse_http_call invocations
    faults,         \* history: number of attempts that did not end in HTTP 200
    pageCalls,      \* history: invocations for the current page
    pageBackoffs,   \* history: backoff sleeps for the current page
    lastEv,         \* history: last blocking operation performed
    lastCall,       \* history: start and num of the last backend call
    status,         \* status of the answer being handled (0: none, or no answer)
    zeroSeen,       \* history: some call answered HTTP 200 with no items
    pageTransient,  \* history: every failed attempt of the page was answered 429/500/502/503/504
    overfull,       \* history: some page carried more items than the num asked for
    input,          \* argument of the pure function under check
    output,         \* its result
    work,           \* main: the rows of dorks to execute (`work`)
    row,            \* main: position in `work` of the row being executed
    rows,           \* main: the rows written to the results file
    summaries,      \* the CSE_SUMMARY records logged by log_query_summary
    parked,         \* two runs: the locals of the run that is not executing
    active          \* two runs: which run is executing (0: a single run)

vars == << pc, total_results, retries, corpus, results, start, rank, num,
           attempt, err, returned, error, calls, faults, pageCalls,
           pageBackoffs, lastEv, lastCall, status, zeroSeen, pageTransient, overfull,
           input, output, work, row, rows, summaries, parked, active >>

pair_vars == << parked, active >>

batch_vars == << work, row, rows, summaries >>

run_vars == << total_results, retries, corpus, results, start, rank, num,
               attempt, err, returned, error, calls, faults, pageCalls,
               pageBackoffs, lastEv, lastCall, status, zeroSeen, pageTransient,
               overfull >>

-----------------------------------------------------------------------------
(* Bounds of the model *)

\* total_results requested in Spec: 1..MaxSmallTotal (one page) and
\* PageSize + 1..PageSize + MaxExtraTotal (a full page and more)
MaxSmallTotal == 3
MaxExtraTotal == 1
\* largest attempt budget `retries`
MaxRetries == 3
\* most attempts of one run the backend lets fail
MaxFaults == 2
\* most phrases in a message handed to classify_cse_error
MaxPhrases == 2
\* most records in a list handed to dedup_results
MaxItems == 3
\* most rows of dorks main is given to execute
MaxWork == 2
\* most parameters in the query string of a URL handed to normalize_url
MaxQuery == 2

(* Constants of the program *)

\* num = min(10, remaining); start += 10
PageSize == 10
\* if start > 91: break
MaxStart == 91

-----------------------------------------------------------------------------
(* Text *)

\* str.lower() on one token
Lower(tok) ==
    CASE tok = "HTTP" -> "http"
      [] tok = "Quota" -> "quota"
      [] tok = "Daily" -> "daily"
      [] tok = "Limit" -> "limit"
      [] tok = "Exceeded" -> "exceeded"
      [] tok = "API" -> "api"
      [] tok = "Forbidden" -> "forbidden"
      [] tok = "Timeout" -> "timeout"
      [] tok = "ConnError" -> "connerror"
      [] tok = "Connection" -> "connection"
      [] tok = "Required" -> "required"
      [] tok = "Not" -> "not"
      [] tok = "Temporarily" -> "temporarily"
      [] tok = "Temporary" -> "temporary"
      [] OTHER -> tok

\* (message or "").lower()
LowerText(m) == [i \in 1..Len(m) |-> Lower(m[i])]

\* phrase in m
Contains(m, phrase) ==
    \E i \in 0..(Len(m) - Len(phrase)) :
        \A j \in 1..Len(phrase) : m[i + j] = phrase[j]

\* f"HTTP {status}: {msg}"
HttpErr(code, msg) == <<"HTTP", ToString(code), ":">> \o msg

\* f"Timeout/ConnError: {last_err}"
NetErr(e) == <<"Timeout", "/", "ConnError", ":">> \o e

-----------------------------------------------------------------------------
(* Error classifier and retry policy *)

\* the rules of classify_cse_error, each the phrases of one `if`
MissingEnvPhrases == { <<"missing", "env">>, <<"membutuhkan", "env">>, <<"required">> }
QuotaPhrases == { <<"quota">>, <<"daily", "limit">>, <<"limit", "exceeded">> }
InvalidKeyPhrases == { <<"api", "key", "not", "valid">>, <<"invalid", "key">>,
                       <<"bad", "api", "key">> }
RateLimitPhrases == { <<"http", "429">>, <<"too", "many", "requests">>,
                      <<"rate", "limit">> }
TimeoutPhrases == { <<"timeout">> }
ForbiddenPhrases == { <<"http", "403">>, <<"forbidden">> }

ContainsAny(m, phrases) == \E p \in phrases : Contains(m, p)

\* a classifier that tests the HTTP 403 / forbidden rule before the others
classify_cse_error_ForbiddenFirst(message) ==
    LET m == LowerText(message) IN
    IF ContainsAny(m, ForbiddenPhrases) THEN "ERR_FORBIDDEN"
    ELSE IF ContainsAny(m, MissingEnvPhrases) THEN "ERR_MISSING_ENV"
    ELSE IF ContainsAny(m, QuotaPhrases) THEN "ERR_QUOTA_EXCEEDED"
    ELSE IF ContainsAny(m, InvalidKeyPhrases) THEN "ERR_INVALID_KEY"
    ELSE IF ContainsAny(m, RateLimitPhrases) THEN "ERR_RATE_LIMIT"
    ELSE IF ContainsAny(m, TimeoutPhrases) THEN "ERR_TIMEOUT"
    ELSE "ERR_UNKNOWN"

classify_cse_error(message) ==
    LET m == LowerText(message) IN
    IF ContainsAny(m, MissingEnvPhrases) THEN "ERR_MISSING_ENV"
    ELSE IF ContainsAny(m, QuotaPhrases) THEN "ERR_QUOTA_EXCEEDED"
    ELSE IF ContainsAny(m, InvalidKeyPhrases) THEN "ERR_INVALID_KEY"
    ELSE IF ContainsAny(m, RateLimitPhrases) THEN "ERR_RATE_LIMIT"
    ELSE IF ContainsAny(m, TimeoutPhrases) THEN "ERR_TIMEOUT"
    ELSE IF ContainsAny(m, ForbiddenPhrases) THEN "ERR_FORBIDDEN"
    ELSE "ERR_UNKNOWN"

\* status_code in (429, 500, 502, 503, 504)
TransientStatuses == {429, 500, 502, 503, 504}

RetryPhrases == { <<"timeout">>, <<"temporarily">>, <<"connection">> }

\* a retry policy that looks at the text only
should_retry_TextOnly(status_code, err_text) ==
    ContainsAny(LowerText(err_text), RetryPhrases)

\* a retry policy that tests the text as given, without lower-casing it
should_retry_CaseSensitive(status_code, err_text) ==
    IF status_code \in TransientStatuses THEN TRUE
    ELSE IF ContainsAny(err_text, RetryPhrases) THEN TRUE
    ELSE FALSE

\* status_code is 0 for None
should_retry(status_code, err_text) ==
    IF status_code \in TransientStatuses THEN TRUE
    ELSE IF ContainsAny(LowerText(err_text), RetryPhrases) THEN TRUE
    ELSE FALSE

-----------------------------------------------------------------------------
(* URL hygiene *)

TRACKING_KEYS == { "utm_source", "utm_medium", "utm_campaign", "utm_term",
                   "utm_content", "gclid", "fbclid", "yclid", "mc_cid", "mc_eid" }

\* the string "", and what every whitespace-only string strips to
EmptyUrl == [pad |-> FALSE, bad |-> FALSE, scheme |-> "", netloc |-> "",
             path |-> "", params |-> "", query |-> <<>>, fragment |-> ""]

\* str.lower() on a scheme or a host
LowerHost(h) ==
    CASE h = "HTTP" -> "http"
      [] h = "HTTPS" -> "https"
      [] h = "X.ORG" -> "x.org"
      [] h = "WWW.X.ORG" -> "www.x.org"
      [] h = "A.B.X.ORG" -> "a.b.x.org"
      [] h = "X.ORG:8443" -> "x.org:8443"
      [] OTHER -> h

\* str.rstrip() on a path
RStrip(p) ==
    CASE p = "/p " -> "/p"
      [] OTHER -> p

\* raw.strip(): the surrounding whitespace goes, and so does whitespace at the
\* end of the path when nothing follows the path in the string
Strip(u) ==
    [u EXCEPT !.pad = FALSE,
              !.path = IF u.params = "" /\ u.query = <<>> /\ u.fragment = ""
                       THEN RStrip(@) ELSE @]

\* the schemes of urllib.parse.uses_netloc that occur in the model
UsesNetloc == {"http", "https"}

\* url = '/' + url: the path urlunparse writes for a relative path
Rooted(p) ==
    CASE p = "p" -> "/p"
      [] OTHER -> p

\* urlunparse(...) read back as components: with a scheme that uses a netloc
\* and no netloc, "//" is written and a relative path is made absolute
Unparse(u) ==
    IF u.netloc = "" /\ u.scheme \in UsesNetloc THEN [u EXCEPT !.path = Rooted(@)]
    ELSE u

\* one "k=v" of the query string re-encoded by urlencode: a key given without
\* "=" comes back from parse_qsl with a blank value and is written "k="
Reencode(kv) == [kv EXCEPT !.bare = FALSE]

\* urlencode([(k, v) for (k, v) in parse_qsl(u.query) if k not in TRACKING_KEYS])
CleanQuery(q) ==
    LET kept == SelectSeq(q, LAMBDA kv : kv.k \notin TRACKING_KEYS)
    IN  [i \in 1..Len(kept) |-> Reencode(kept[i])]

normalize_url(rawurl) ==
    LET raw == Strip(rawurl) IN
    IF raw = EmptyUrl THEN raw
    ELSE IF raw.bad THEN raw
    ELSE Unparse([raw EXCEPT !.scheme = LowerHost(raw.scheme),
                             !.netloc = LowerHost(raw.netloc),
                             !.query = CleanQuery(raw.query),
                             !.fragment = ""])

\* (domain or "").strip().lower()
LowerDomain(domain) ==
    CASE domain = " X.ORG " -> "x.org"
      [] domain = "X.org" -> "x.org"
      [] OTHER -> domain

\* the strings d for which host.endswith("." + d)
DotSuffixes(host) ==
    CASE host = "x.org" -> {"org"}
      [] host = "www.x.org" -> {"x.org", "org"}
      [] host = "a.b.x.org" -> {"b.x.org", "x.org", "org"}
      [] host = "notx.org" -> {"org"}
      [] host = "x.org.evil.net" -> {"org.evil.net", "evil.net", "net"}
      [] host = "x.org:8443" -> {"org:8443"}
      [] host = "user@x.org" -> {"org"}
      [] OTHER -> {}

\* urlparse raising is caught and answered False
is_domain_scoped(url, domain) ==
    IF url.bad THEN FALSE
    ELSE LET host == LowerHost(url.netloc)
             d == LowerDomain(domain)
         IN  host = d \/ d \in DotSuffixes(host)

\* the loop of dedup_results from item i on, with `seen` and `out` so far
RECURSIVE DedupFrom(_, _, _, _)
DedupFrom(items, i, seen, out) ==
    IF i > Len(items) THEN out
    ELSE LET val == normalize_url(items[i].url)
             it == [items[i] EXCEPT !.url = val]
         IN  IF val = EmptyUrl \/ val \in seen
             THEN DedupFrom(items, i + 1, seen, out)
             ELSE DedupFrom(items, i + 1, seen \cup {val}, Append(out, it))

\* a deduplication on the URLs as given, which leaves the records as they are
RECURSIVE DedupRawFrom(_, _, _, _)
DedupRawFrom(items, i, seen, out) ==
    IF i > Len(items) THEN out
    ELSE LET val == Strip(items[i].url)
         IN  IF val = EmptyUrl \/ val \in seen
             THEN DedupRawFrom(items, i + 1, seen, out)
             ELSE DedupRawFrom(items, i + 1, seen \cup {val}, Append(out, items[i]))

dedup_results_Raw(items) == DedupRawFrom(items, 1, {}, <<>>)

\* dedup_results(items, key="url")
dedup_results(items) == DedupFrom(items, 1, {}, <<>>)

-----------------------------------------------------------------------------
(* The backend: what _cse_http_call can answer *)

\* what the index holds for the query
\*   distinct: every hit is another page
\*   pairs:    hits come in twos: a page, then a campaign link to that page
\*   variants: hits come in threes: a page, a campaign link to that page,
\*             and a hit whose link is blank
\*   mixed:    hits come in fours: a page of x.org, a page of notx.org, a
\*             page of A.B.X.ORG, a page of x.org given with its port
Corpora == {"distinct", "variants"}
FullCorpora == {"distinct", "pairs"}

PlainUrl(n) == [pad |-> FALSE, bad |-> FALSE, scheme |-> "https",
                netloc |-> "x.org", path |-> "/p" \o ToString(n),
                params |-> "", query |-> <<>>, fragment |-> ""]

\* the same page as PlainUrl(n), reached through a campaign link
TrackedUrl(n) == [PlainUrl(n) EXCEPT !.pad = TRUE, !.scheme = "HTTPS",
                     !.netloc = "X.ORG", !.fragment = "top",
                     !.query = << [k |-> "utm_source", v |-> "a", bare |-> FALSE] >>]

\* the "link" of the g-th hit of the index
HitLink(c, g) ==
    CASE c = "distinct" -> PlainUrl(g)
      [] c = "pairs" -> IF g % 2 = 1 THEN PlainUrl((g + 1) \div 2)
                        ELSE TrackedUrl(g \div 2)
      [] c = "variants" ->
            CASE g % 3 = 1 -> PlainUrl((g + 2) \div 3)
              [] g % 3 = 2 -> TrackedUrl((g + 1) \div 3)
              [] OTHER -> [EmptyUrl EXCEPT !.pad = TRUE]
      [] c = "mixed" ->
            CASE g % 4 = 1 -> PlainUrl(g)
              [] g % 4 = 2 -> [PlainUrl(g) EXCEPT !.netloc = "notx.org"]
              [] g % 4 = 3 -> [PlainUrl(g) EXCEPT !.netloc = "A.B.X.ORG"]
              [] OTHER -> [PlainUrl(g) EXCEPT !.netloc = "x.org:8443"]

\* the "link" of the i-th item of the page asked for at offset s
Link(c, s, i) == HitLink(c, s + i - 1)

\* data["items"] of a page of k items asked for at offset s
Items(c, s, k) ==
    [i \in 1..k |-> [title |-> "t" \o ToString(s + i - 1), link |-> Link(c, s, i),
                     snippet |-> "s"]]

\* the numbers of items a page asked for with num = n may carry: none, one
\* fewer than asked, as many as asked, a full page whatever was asked
ItemCounts(n) == {0, n - 1, n, PageSize} \cap 0..PageSize

\* the non-200 statuses the backend answers with
ErrorStatuses == {403, 404} \cup TransientStatuses

\* data["error"]["message"] of a non-200 answer (<<>>: none)
Bodies == { <<>>, <<"Quota", "exceeded">>, <<"Connection", "reset">> }

\* (data.get("error", {}) or {}).get("message", "") or str(data)
MsgOf(body) == IF body = <<>> THEN << "{}" >> ELSE body

\* str(e) of a requests.Timeout or requests.ConnectionError
NetFaults == { <<"Read", "timed", "out">>, <<"Connection", "refused">> }

\* str(e) of any other exception of the attempt
OtherErrors == { <<"Exceeded", "30", "redirects">> }

NoCall == [start |-> 0, num |-> 0]

Min(a, b) == IF a < b THEN a ELSE b

-----------------------------------------------------------------------------
(* cse_search_paged *)

PcValues == {"loop", "rate", "call", "backoff", "post", "done", "failed", "pure",
             "next", "stopped", "finished"}

\* a page size that forgets what is already collected
PageNum_Full(total, have) == PageSize

\* a page size that is all that is still missing
PageNum_NoCap(total, have) == total - have

\* remaining = total_results - len(results); num = min(10, remaining)
PageNum(total, have) == Min(PageSize, total - have)

\* records ranked from 1 on every page
Records_RankPerPage(items, r) ==
    [i \in 1..Len(items) |->
        [rank |-> i, title |-> items[i].title,
         url |-> Strip(items[i].link), snippet |-> items[i].snippet]]

\* the records appended for a page of items
Records(items, r) ==
    [i \in 1..Len(items) |->
        [rank |-> r + i - 1, title |-> items[i].title,
         url |-> Strip(items[i].link), snippet |-> items[i].snippet]]

\* a next-page step without the test on start
AfterPage_NoCap(res) ==
    /\ start' = start + PageSize
    /\ pc' = IF Len(res) >= total_results THEN "post" ELSE "loop"

\* after the attempts of a page: start += 10, then the two tests that end the
\* paging; otherwise back to the while test
AfterPage(res) ==
    /\ start' = start + PageSize
    /\ pc' = IF Len(res) >= total_results THEN "post"
             ELSE IF start + PageSize > MaxStart THEN "post"
             ELSE "loop"

\* the locals and the history of a run that has not started
Fresh ==
    /\ results = <<>>
    /\ start = 1
    /\ rank = 1
    /\ num = 0
    /\ attempt = 0
    /\ err = <<>>
    /\ returned = <<>>
    /\ error = <<>>
    /\ calls = 0
    /\ faults = 0
    /\ pageCalls = 0
    /\ pageBackoffs = 0
    /\ lastEv = "none"
    /\ lastCall = NoCall
    /\ status = 0
    /\ zeroSeen = FALSE
    /\ pageTransient = TRUE
    /\ overfull = FALSE

\* a single run: no second run of cse_search_paged beside it
NoPair ==
    /\ parked = <<>>
    /\ active = 0

\* main is not running
NoBatch ==
    /\ work = <<>>
    /\ row = 0
    /\ rows = <<>>
    /\ summaries = 0

\* the state after line 201, the parameters drawn from T, R and C
InitRun(T, R, C) ==
    /\ pc = "loop"
    /\ total_results \in T
    /\ retries \in R
    /\ corpus \in C
    /\ Fresh
    /\ NoBatch
    /\ NoPair
    /\ input = <<>>
    /\ output = <<>>

\* the while test, remaining/num, and the entry of the attempt loop; with
\* retries < 1 range(1, retries + 1) is empty and the page ends at once
WhileHead ==
    /\ pc = "loop"
    /\ IF Len(results) < total_results
       THEN /\ num' = PageNum(total_results, Len(results))
            /\ pageCalls' = 0
            /\ pageBackoffs' = 0
            /\ pageTransient' = TRUE
            /\ IF retries >= 1
               THEN /\ attempt' = 1
                    /\ pc' = "rate"
                    /\ UNCHANGED << start, overfull >>
               ELSE /\ AfterPage(results)
                    /\ UNCHANGED << attempt, overfull >>
       ELSE /\ pc' = "post"
            /\ UNCHANGED << num, pageCalls, pageBackoffs, pageTransient, attempt,
                            start, overfull >>
    /\ UNCHANGED << total_results, retries, corpus, results, rank, err, returned,
                    error, calls, faults, lastEv, lastCall, status, zeroSeen, input,
                    output, batch_vars, pair_vars >>

\* rate_limit_sleep(sleep_min, sleep_max, jitter=True)
RateLimitSleep ==
    /\ pc = "rate"
    /\ pc' = "call"
    /\ lastEv' = "rate"
    /\ UNCHANGED << total_results, retries, corpus, results, start, rank, num,
                    attempt, err, returned, error, calls, faults, pageCalls,
                    pageBackoffs, lastCall, status, zeroSeen, pageTransient,
                    overfull, input, output, batch_vars, pair_vars >>

\* the bookkeeping of one _cse_http_call
Called(st) ==
    /\ calls' = calls + 1
    /\ pageCalls' = pageCalls + 1
    /\ lastEv' = "call"
    /\ lastCall' = [start |-> start, num |-> num]
    /\ status' = st

\* the call answers HTTP 200 with k items: they are appended, the attempt
\* loop is left by `break`, and the page is closed
Page200(k) ==
    LET res == results \o Records(Items(corpus, start, k), rank) IN
    /\ Called(200)
    /\ results' = res
    /\ rank' = rank + k
    /\ zeroSeen' = (zeroSeen \/ k = 0)
    /\ overfull' = (overfull \/ k > num)
    /\ AfterPage(res)
    /\ UNCHANGED << total_results, retries, corpus, num, attempt, err, returned,
                    error, faults, pageBackoffs, pageTransient, input, output, batch_vars, pair_vars >>

CallOk ==
    /\ pc = "call"
    /\ \E k \in ItemCounts(num) : Page200(k)

\* the call answers a status other than 200
CallHttpError ==
    /\ pc = "call"
    /\ faults < MaxFaults
    /\ \E st \in ErrorStatuses, body \in Bodies :
         LET e == HttpErr(st, MsgOf(body)) IN
         /\ Called(st)
         /\ pageTransient' = (pageTransient /\ st \in TransientStatuses)
         /\ faults' = faults + 1
         /\ err' = e
         /\ IF should_retry(st, e) /\ attempt < retries
            THEN pc' = "backoff" /\ UNCHANGED error
            ELSE pc' = "failed" /\ error' = e
    /\ UNCHANGED << total_results, retries, corpus, results, start, rank, num,
                    attempt, returned, pageBackoffs, zeroSeen, overfull, input,
                    output, batch_vars, pair_vars >>

\* a handler that gives up only when attempt > retries
CallNetFault_OneMore ==
    /\ pc = "call"
    /\ faults < MaxFaults
    /\ \E e \in NetFaults :
         /\ Called(0)
         /\ pageTransient' = FALSE
         /\ faults' = faults + 1
         /\ err' = e
         /\ IF attempt > retries
            THEN pc' = "failed" /\ error' = NetErr(e)
            ELSE pc' = "backoff" /\ UNCHANGED error
    /\ UNCHANGED << total_results, retries, corpus, results, start, rank, num,
                    attempt, returned, pageBackoffs, zeroSeen, overfull, input,
                    output, batch_vars, pair_vars >>

\* the call raises requests.Timeout or requests.ConnectionError
CallNetFault ==
    /\ pc = "call"
    /\ faults < MaxFaults
    /\ \E e \in NetFaults :
         /\ Called(0)
         /\ pageTransient' = FALSE
         /\ faults' = faults + 1
         /\ err' = e
         /\ IF attempt >= retries
            THEN pc' = "failed" /\ error' = NetErr(e)
            ELSE pc' = "backoff" /\ UNCHANGED error
    /\ UNCHANGED << total_results, retries, corpus, results, start, rank, num,
                    attempt, returned, pageBackoffs, zeroSeen, overfull, input,
                    output, batch_vars, pair_vars >>

\* a handler that leaves the paging loop and returns what was collected
CallOtherError_Partial ==
    /\ pc = "call"
    /\ faults < MaxFaults
    /\ \E e \in OtherErrors :
         /\ Called(0)
         /\ pageTransient' = FALSE
         /\ faults' = faults + 1
         /\ err' = e
         /\ pc' = "post"
         /\ error' = e
    /\ UNCHANGED << total_results, retries, corpus, results, start, rank, num,
                    attempt, returned, pageBackoffs, zeroSeen, overfull, input,
                    output, batch_vars, pair_vars >>

\* the attempt raises anything else: re-raised as RuntimeError(str(e))
CallOtherError ==
    /\ pc = "call"
    /\ faults < MaxFaults
    /\ \E e \in OtherErrors :
         /\ Called(0)
         /\ pageTransient' = FALSE
         /\ faults' = faults + 1
         /\ err' = e
         /\ pc' = "failed"
         /\ error' = e
    /\ UNCHANGED << total_results, retries, corpus, results, start, rank, num,
                    attempt, returned, pageBackoffs, zeroSeen, overfull, input,
                    output, batch_vars, pair_vars >>

\* a retry that goes straight to the call
BackoffSleep_NoRate ==
    /\ pc = "backoff"
    /\ pc' = "call"
    /\ attempt' = attempt + 1
    /\ pageBackoffs' = pageBackoffs + 1
    /\ lastEv' = "backoff"
    /\ err' = <<>>
    /\ status' = 0
    /\ UNCHANGED << total_results, retries, corpus, results, start, rank, num,
                    returned, error, calls, faults, pageCalls, lastCall,
                    zeroSeen, pageTransient, overfull, input, output, batch_vars, pair_vars >>

\* time.sleep(sleep_s) of either retry path, then the next attempt
BackoffSleep ==
    /\ pc = "backoff"
    /\ pc' = "rate"
    /\ attempt' = attempt + 1
    /\ pageBackoffs' = pageBackoffs + 1
    /\ lastEv' = "backoff"
    /\ err' = <<>>
    /\ status' = 0
    /\ UNCHANGED << total_results, retries, corpus, results, start, rank, num,
                    returned, error, calls, faults, pageCalls, lastCall,
                    zeroSeen, pageTransient, overfull, input, output, batch_vars, pair_vars >>

\* results = dedup_results(results, key="url"); return results
Return ==
    /\ pc = "post"
    /\ pc' = "done"
    /\ results' = dedup_results(results)
    /\ returned' = results'
    /\ UNCHANGED << total_results, retries, corpus, start, rank, num, attempt,
                    err, error, calls, faults, pageCalls, pageBackoffs, lastEv,
                    lastCall, status, zeroSeen, pageTransient, overfull, input, output, batch_vars, pair_vars >>

\* the values of total_results the runs of Spec are asked for
TotalChoices ==
    (1..MaxSmallTotal) \cup ((PageSize + 1)..(PageSize + MaxExtraTotal))

Init == InitRun(TotalChoices, 0..MaxRetries, Corpora)

Next ==
    \/ WhileHead
    \/ RateLimitSleep
    \/ CallOk
    \/ CallHttpError
    \/ CallNetFault
    \/ CallOtherError
    \/ BackoffSleep
    \/ Return

Spec == Init /\ [][Next]_vars

TypeOK ==
    /\ pc \in PcValues
    /\ start \in 1..(MaxStart + PageSize)
    /\ attempt \in 0..retries

-----------------------------------------------------------------------------
(* Claims about the paging loop *)

\* C1: once a call has answered HTTP 200 with no items, no further backend
\* call is made for the query.
C1_NoCallAfterEmptyPage == [][zeroSeen => calls' = calls]_vars

\* C2: a non-200 answer whose text classifies as ERR_QUOTA_EXCEEDED is never
\* followed by a backoff: the run is never waiting to retry such an answer.
C2_QuotaNeverRetried ==
    ~ ( /\ pc = "backoff"
        /\ status \in ErrorStatuses
        /\ classify_cse_error(err) = "ERR_QUOTA_EXCEEDED" )

\* C3 as stated: whatever the pages carry (0..10 items each), the accumulated
\* and the returned list never hold more than total_results records.
C3_NeverMoreThanRequested ==
    /\ Len(results) <= total_results
    /\ Len(returned) <= total_results

\* C3, what the code does guarantee: as long as no page carried more items
\* than the num it was asked with, the accumulated and the returned list
\* hold at most total_results records.
C3_AtMostRequested ==
    ~overfull => /\ Len(results) <= total_results
                 /\ Len(returned) <= total_results

\* a query over two pages, each carrying what was asked, has returned exactly
\* total_results records (the case of C3_AtMostRequested).
C3_Witness ==
    /\ pc = "done"
    /\ ~overfull
    /\ calls >= 2
    /\ total_results > PageSize
    /\ Len(returned) = total_results

\* C4: `start` moves to the next page, and the paging loop is left for the
\* return, only in a step in which the current page is answered HTTP 200.
C4_NoPageSkipped ==
    [][(start' # start \/ (pc' = "post" /\ pc # "post"))
          => (status' = 200 /\ lastCall'.start = start)]_vars

\* a step in which a backend call is answered HTTP 200
Success == calls' = calls + 1 /\ status' = 200

\* a non-200 answer with a transient status is followed by a backoff while
\* attempts remain
RetriedWhileBudget ==
    (calls' = calls + 1 /\ status' \in TransientStatuses /\ attempt < retries)
        => pc' = "backoff"

\* when the page is answered 200 after k attempts answered with transient
\* statuses, that was call k+1 of the page, k backoffs were slept, none
\* follows, the next call is for another offset, and the items of the
\* answer are appended to results
CountsAtSuccess ==
    /\ (Success /\ pageTransient) =>
          /\ pageCalls' = attempt
          /\ pageBackoffs' = attempt - 1
          /\ pageBackoffs' = pageBackoffs
          /\ pc' \in {"loop", "post"}
          /\ SubSeq(results', 1, Len(results)) = results
          /\ \A i \in 1..(Len(results') - Len(results)) :
                results'[Len(results) + i].url = Strip(Link(corpus, start, i))
    /\ (calls' = calls + 1 /\ status = 200) => lastCall'.start # lastCall.start
    /\ (pc' = "backoff") => status' # 200

\* the step that returns the list
Returning == pc = "post" /\ pc' = "done"

\* C6 as stated: k transient answers then a 200 make k+1 calls and k
\* backoffs for the page, and the items of that page are in the list the
\* query returns (stated for a query whose only page was retried).
C6_RetryThenSuccessAsStated ==
    [][ /\ RetriedWhileBudget
        /\ CountsAtSuccess
        /\ (Returning /\ pageTransient /\ pageBackoffs >= 1 /\ calls = pageCalls
               /\ ~overfull)
              => \A i \in 1..Len(results) :
                    \E j \in 1..Len(returned') : returned'[j].rank = results[i].rank
      ]_vars

\* C6 amended: k transient answers then a 200 make k+1 calls and k backoffs
\* for the page, its items are appended to results, and when the query
\* returns, each accumulated item whose normalized URL is non-empty and did
\* not occur earlier is in the returned list.
C6_RetryThenSuccess ==
    [][ /\ RetriedWhileBudget
        /\ CountsAtSuccess
        /\ Returning
              => \A i \in 1..Len(results) :
                    LET key == normalize_url(results[i].url) IN
                    (/\ key # EmptyUrl
                     /\ \A h \in 1..(i - 1) : normalize_url(results[h].url) # key)
                       => \E j \in 1..Len(returned') :
                             /\ returned'[j].rank = results[i].rank
                             /\ returned'[j].url = key
      ]_vars

\* C6 witness: 3 calls and 2 backoffs for a page answered with transient
\* statuses twice and then HTTP 200 with items, with retries = 3.
C6_Witness ==
    /\ pc = "done"
    /\ retries = 3
    /\ status = 200
    /\ pageTransient
    /\ calls = 3
    /\ pageCalls = 3
    /\ pageBackoffs = 2
    /\ Len(returned) >= 1

\* C7: every backend call (first attempt of a page, retry after a non-200
\* answer, retry after a network fault) comes right after a rate-limiter
\* delay, and that delay does not follow another rate-limiter delay.
C7_RateLimitBeforeEveryCall ==
    [][ /\ (calls' = calls + 1) => lastEv = "rate"
        /\ (pc = "rate" /\ pc' = "call") => (lastEv # "rate" /\ lastEv' = "rate")
      ]_vars

\* C7 witness: a retry has been called after a backoff and a rate-limiter
\* delay.
C7_Witness ==
    /\ lastEv = "call"
    /\ pageCalls >= 2
    /\ pageBackoffs = pageCalls - 1

RanksIncreasing(list) ==
    \A i \in 1..Len(list) :
        /\ list[i].rank >= 1
        /\ i < Len(list) => list[i].rank < list[i + 1].rank

\* C8: in the accumulated list after every page and in the returned list the
\* ranks are positive and strictly increasing in list order (so pairwise
\* distinct), and the rank counter stays above every rank given out.
C8_RanksIncreasing ==
    /\ RanksIncreasing(results)
    /\ RanksIncreasing(returned)
    /\ \A i \in 1..Len(results) : results[i].rank < rank

\* C8 witness: a returned list that spans two pages and from which
\* deduplication has dropped records.
C8_Witness ==
    /\ pc = "done"
    /\ Len(returned) >= 2
    /\ Len(returned) < rank - 1
    /\ \E i \in 1..Len(returned) : returned[i].rank > PageSize

\* C18: an attempt answered HTTP 403 is never followed by a backoff and
\* another attempt: the run is failed, with the text "HTTP 403: <message>".
C18_ForbiddenNeverRetried ==
    status = 403 =>
        /\ pc = "failed"
        /\ Len(error) > 3
        /\ SubSeq(error, 1, 3) = <<"HTTP", "403", ":">>

\* C19: a page never has more than `retries` backend calls, whatever mix of
\* network faults and non-200 answers its attempts end in: each call of the
\* page is the attempt-th, attempt starts at 1 on every page, and a network
\* fault on attempt `retries` fails the query with "Timeout/ConnError: ..."
\* after exactly `retries` calls of the page (earlier ones are backed off).
C19_AttemptBudgetPerPage ==
    [][ /\ pageCalls' <= retries
        /\ (calls' = calls + 1) => pageCalls' = attempt
        /\ (pc = "loop" /\ pc' = "rate") => (attempt' = 1 /\ pageCalls' = 0)
        /\ (calls' = calls + 1 /\ status' = 0 /\ err' \in NetFaults) =>
              IF attempt < retries
              THEN pc' = "backoff"
              ELSE /\ pc' = "failed"
                   /\ error' = <<"Timeout", "/", "ConnError", ":">> \o err'
                   /\ pageCalls' = retries
      ]_vars

\* C19 witness: the second page of a query has failed after two attempts,
\* the last a network fault, with retries = 2.
C19_Witness ==
    /\ pc = "failed"
    /\ retries = 2
    /\ start = 1 + PageSize
    /\ calls = 3
    /\ pageCalls = 2
    /\ SubSeq(error, 1, 3) = <<"Timeout", "/", "ConnError">>

\* the offsets 1, 11, 21, ..., 91
PageOffsets == { 1 + PageSize * p : p \in 0..((MaxStart - 1) \div PageSize) }

\* C21: every backend call is made at an offset of 1, 11, ..., 91, the same
\* as the call before it or 10 more, and asks for min(10, total_results -
\* records accumulated so far) items, a number in 1..10.
C21_CallParameters ==
    [][ (calls' = calls + 1) =>
          /\ lastCall'.start \in PageOffsets
          /\ lastCall'.start <= 91
          /\ calls >= 1 => lastCall'.start \in {lastCall.start, lastCall.start + 10}
          /\ calls = 0 => lastCall'.start = 1
          /\ lastCall'.num \in 1..10
          /\ \/ lastCall'.num = 10 /\ total_results - Len(results) >= 10
             \/ lastCall'.num = total_results - Len(results)
      ]_vars

\* C21 witness: the tenth page has been called, at offset 91.
C21_Witness ==
    /\ lastEv = "call"
    /\ calls >= 10
    /\ lastCall.start = 91
    /\ lastCall.num \in 1..10

\* the run has ended: a list was returned or an error raised
Terminated == pc \in {"done", "failed"}

\* never both a list and an error, at most 10 pages, at most 10 * retries
\* backend calls
WithinBudget ==
    /\ pc = "done" => error = <<>>
    /\ pc = "failed" => (error # <<>> /\ returned = <<>>)
    /\ start <= 1 + PageSize * 10
    /\ (~Terminated /\ pc # "post") => start <= 1 + PageSize * 9
    /\ calls <= 10 * retries

\* the pages that may still be visited: 10 at offset 1, none past offset 91
PagesLeft == (MaxStart + PageSize - start) \div PageSize

\* what is left of the current page: three steps (delay, call, backoff) for
\* each attempt not yet made
PageLeft ==
    CASE pc = "loop" -> 3 * retries + 4
      [] pc = "rate" -> 3 * (retries - attempt) + 3
      [] pc = "call" -> 3 * (retries - attempt) + 2
      [] pc = "backoff" -> 3 * (retries - attempt) + 1
      [] OTHER -> 0

\* a bound on the steps the run can still take
StepsLeft ==
    CASE pc = "post" -> 1
      [] Terminated -> 0
      [] OTHER -> PagesLeft * (3 * retries + 5) + PageLeft

\* the statement the run is at can be executed (each call and each delay
\* returns): the run is not stuck before it has ended
CanStep ==
    \/ pc \in {"loop", "rate", "backoff", "post"}
    \/ pc = "call" /\ ItemCounts(num) # {}

\* C22: every run ends, either returning a list or raising an error and
\* never both, and nothing happens after that: each step brings the end
\* nearer (StepsLeft decreases and is never negative) and leaves the run
\* ended or able to step; the run never has more than 10 pages behind it
\* nor more than 10 * retries backend calls.
C22_Terminates ==
    [][ /\ ~Terminated
        /\ StepsLeft' < StepsLeft
        /\ StepsLeft' >= 0
        /\ Terminated' \/ CanStep'
        /\ WithinBudget'
      ]_vars

\* C22 witness: a run has returned after ten pages of retries = 2 calls
\* each.
C22_Witness ==
    /\ pc = "done"
    /\ retries = 2
    /\ calls = 12
    /\ start = 1 + PageSize * 10

-----------------------------------------------------------------------------
(* The run against a backend that always answers HTTP 200 with exactly the *)
(* num items asked for                                                     *)

\* the most records ten pages of ten can give
MaxReachable == PageSize * ((MaxStart - 1) \div PageSize + 1)

CallFull ==
    /\ pc = "call"
    /\ Page200(num)

InitFull == InitRun(1..MaxReachable, 1..MaxRetries, FullCorpora)

NextFull ==
    \/ WhileHead
    \/ RateLimitSleep
    \/ CallFull
    \/ Return

SpecFull == InitFull /\ [][NextFull]_vars

Ceil(a, b) == (a + b - 1) \div b

\* the links of the first n hits are non-empty and pairwise distinct as given
RawDistinct(c, n) ==
    /\ \A g \in 1..n : HitLink(c, g) # EmptyUrl
    /\ \A g \in 1..n : \A h \in (g + 1)..n : HitLink(c, g) # HitLink(c, h)

\* the same, after normalize_url
NormDistinct(c, n) ==
    /\ \A g \in 1..n : normalize_url(HitLink(c, g)) # EmptyUrl
    /\ \A g \in 1..n : \A h \in (g + 1)..n :
          normalize_url(HitLink(c, g)) # normalize_url(HitLink(c, h))

\* ceil(N/10) calls were made and N records with ranks 1..N are returned
FullResult ==
    /\ calls = Ceil(total_results, PageSize)
    /\ Len(returned) = total_results
    /\ \A i \in 1..Len(returned) : returned[i].rank = i

\* the n-th call is made at offset 1 + 10(n-1) for what is still missing
CallsInOrder ==
    calls >= 1 =>
        /\ lastCall.start = 1 + PageSize * (calls - 1)
        /\ lastCall.num = Min(PageSize, total_results - PageSize * (calls - 1))
        /\ calls <= Ceil(total_results, PageSize)

-----------------------------------------------------------------------------
(* dedup_results applied to bounded lists of records *)

\* the URLs of the records handed to dedup_results
UrlPool ==
    LET x == [pad |-> FALSE, bad |-> FALSE, scheme |-> "http", netloc |-> "x.org",
              path |-> "/", params |-> "", query |-> <<>>, fragment |-> ""]
        utm == [k |-> "utm_source", v |-> "a", bare |-> FALSE]
        q == [k |-> "q", v |-> "", bare |-> TRUE]
    IN  { x,
          [x EXCEPT !.query = <<utm>>],
          [x EXCEPT !.scheme = "HTTP", !.netloc = "X.ORG", !.fragment = "top"],
          [x EXCEPT !.query = <<utm, q>>, !.pad = TRUE],
          [x EXCEPT !.query = <<q>>],
          [x EXCEPT !.netloc = "www.x.org"],
          [x EXCEPT !.bad = TRUE, !.netloc = "[x", !.fragment = "top"],
          EmptyUrl,
          [EmptyUrl EXCEPT !.pad = TRUE] }

\* the lists of at most n records with URLs from UrlPool, ranked by position
RecordLists(n) ==
    UNION { [1..len -> UrlPool] : len \in 0..n }

AsRecords(urls) ==
    [i \in 1..Len(urls) |->
        [rank |-> i, title |-> "t", url |-> urls[i], snippet |-> "s"]]

InitDedup ==
    /\ pc = "pure"
    /\ \E urls \in RecordLists(MaxItems) : input = AsRecords(urls)
    /\ output = <<>>
    /\ total_results = 1
    /\ retries = 0
    /\ corpus = "distinct"
    /\ Fresh
    /\ NoBatch
    /\ NoPair

DedupCall ==
    /\ pc = "pure"
    /\ pc' = "done"
    /\ output' = dedup_results(input)
    /\ UNCHANGED << input, run_vars, batch_vars, pair_vars >>

NextDedup ==
    \/ DedupCall

SpecDedup == InitDedup /\ [][NextDedup]_vars

\* the normalized URL of the i-th record handed in
KeyOf(i) == normalize_url(input[i].url)

\* the positions of the first record of each non-empty normalized URL
FirstOfKey ==
    { i \in 1..Len(input) :
        /\ KeyOf(i) # EmptyUrl
        /\ \A h \in 1..(i - 1) : KeyOf(h) # KeyOf(i) }

\* the j-th smallest position of FirstOfKey
NthFirst(j) ==
    CHOOSE i \in FirstOfKey : Cardinality({h \in FirstOfKey : h <= i}) = j

\* C9: dedup_results returns the records that are first for their non-empty
\* normalized URL, in input order, each with its url field set to the
\* normalized URL; every other record is dropped.
C9_DedupFirstOccurrence ==
    pc = "done" =>
        /\ Len(output) = Cardinality(FirstOfKey)
        /\ \A j \in 1..Len(output) :
              output[j] = [input[NthFirst(j)] EXCEPT !.url = KeyOf(NthFirst(j))]

\* C9 witness: a campaign link followed by the plain URL of the same page
\* has come back as the first record alone, with the plain URL.
C9_Witness ==
    /\ pc = "done"
    /\ Len(input) = 2
    /\ input[1].url # input[2].url
    /\ input[1].url.query # <<>>
    /\ input[2].url = normalize_url(input[1].url)
    /\ Len(output) = 1
    /\ output[1].rank = 1
    /\ output[1].url = input[2].url

-----------------------------------------------------------------------------
(* classify_cse_error applied to bounded messages *)

\* the pieces the messages are made of
MsgPhrases ==
    { <<"missing", "env">>, <<"membutuhkan", "env">>, <<"Required">>,
      <<"Quota">>, <<"Daily", "Limit">>, <<"limit", "exceeded">>,
      <<"API", "key", "not", "valid">>, <<"invalid", "key">>,
      <<"bad", "api", "key">>,
      <<"HTTP", "429", ":">>, <<"too", "many", "requests">>, <<"rate", "limit">>,
      <<"Connection", "timeout">>,
      <<"HTTP", "403", ":">>, <<"Forbidden">>,
      <<"HTTP", "500", ":">>, <<"not", "found">> }

RECURSIVE Flatten(_)
Flatten(ps) == IF ps = <<>> THEN <<>> ELSE Head(ps) \o Flatten(Tail(ps))

\* the messages of at most n phrases
Messages(n) ==
    { Flatten(ps) : ps \in UNION { [1..len -> MsgPhrases] : len \in 0..n } }

InitClassify ==
    /\ pc = "pure"
    /\ input \in Messages(MaxPhrases)
    /\ output = <<>>
    /\ total_results = 1
    /\ retries = 0
    /\ corpus = "distinct"
    /\ Fresh
    /\ NoBatch
    /\ NoPair

ClassifyCall ==
    /\ pc = "pure"
    /\ pc' = "done"
    /\ output' = classify_cse_error(input)
    /\ UNCHANGED << input, run_vars, batch_vars, pair_vars >>

NextClassify ==
    \/ ClassifyCall

SpecClassify == InitClassify /\ [][NextClassify]_vars

\* the rules in the order the claim gives them
RuleOrder ==
    << [kind |-> "ERR_MISSING_ENV", phrases |-> MissingEnvPhrases],
       [kind |-> "ERR_QUOTA_EXCEEDED", phrases |-> QuotaPhrases],
       [kind |-> "ERR_INVALID_KEY", phrases |-> InvalidKeyPhrases],
       [kind |-> "ERR_RATE_LIMIT", phrases |-> RateLimitPhrases],
       [kind |-> "ERR_TIMEOUT", phrases |-> TimeoutPhrases],
       [kind |-> "ERR_FORBIDDEN", phrases |-> ForbiddenPhrases] >>

\* the rules the lower-cased message m matches
Matching(m) == { r \in 1..Len(RuleOrder) : ContainsAny(m, RuleOrder[r].phrases) }

\* C10: the kind returned is that of the earliest rule the lower-cased
\* message matches, ERR_UNKNOWN when it matches none; a message matching the
\* quota and the forbidden rule (and not the missing-credentials rule) is
\* ERR_QUOTA_EXCEEDED.
C10_FirstRuleWins ==
    pc = "done" =>
        LET m == LowerText(input)
            hit == Matching(m)
        IN  /\ hit = {} => output = "ERR_UNKNOWN"
            /\ hit # {} =>
                  \E r \in hit : /\ \A r2 \in hit : r <= r2
                                 /\ output = RuleOrder[r].kind
            /\ ({2, 6} \subseteq hit /\ 1 \notin hit) => output = "ERR_QUOTA_EXCEEDED"

\* C10 witness: a message with both an HTTP 403 and a quota phrase has been
\* classified ERR_QUOTA_EXCEEDED.
C10_Witness ==
    /\ pc = "done"
    /\ Contains(LowerText(input), <<"http", "403">>)
    /\ Contains(LowerText(input), <<"quota">>)
    /\ output = "ERR_QUOTA_EXCEEDED"

-----------------------------------------------------------------------------
(* should_retry applied to bounded (status, text) pairs *)

\* the status codes handed to should_retry (0: None)
RetryStatuses == {0, 200, 400, 403, 404} \cup TransientStatuses

\* the pieces the error texts are made of
RetryPieces ==
    { <<"not", "found">>, <<"connection", "reset">>, <<"Connection", "refused">>,
      <<"Read", "Timeout">>, <<"Read", "timed", "out">>,
      <<"Service", "Temporarily", "unavailable">>, <<"Temporary", "failure">>,
      <<"Quota", "exceeded">> }

\* the error texts of at most n pieces
RetryTexts(n) ==
    { Flatten(ps) : ps \in UNION { [1..len -> RetryPieces] : len \in 0..n } }

InitRetry ==
    /\ pc = "pure"
    /\ \E s \in RetryStatuses, t \in RetryTexts(MaxPhrases) :
          input = [status_code |-> s, err_text |-> t]
    /\ output = <<>>
    /\ total_results = 1
    /\ retries = 0
    /\ corpus = "distinct"
    /\ Fresh
    /\ NoBatch
    /\ NoPair

ShouldRetryCall ==
    /\ pc = "pure"
    /\ pc' = "done"
    /\ output' = should_retry(input.status_code, input.err_text)
    /\ UNCHANGED << input, run_vars, batch_vars, pair_vars >>

NextRetry ==
    \/ ShouldRetryCall

SpecRetry == InitRetry /\ [][NextRetry]_vars

\* some word of the text is, in lower case, one of timeout, temporarily,
\* connection
HasRetryWord(t) ==
    \E i \in 1..Len(t) : Lower(t[i]) \in {"timeout", "temporarily", "connection"}

-----------------------------------------------------------------------------
(* main: the CSE batch loop over the rows of `work`                        *)

\* domains of the rows of work (lines of the domains file, stripped)
Domains == {"x.org"}

\* the lists of rows main may be given
WorkLists(n) ==
    UNION { [1..len -> [domain : Domains, dork : {"site:x.org q"}]] : len \in 1..n }

\* what the index may hold for a dork
BatchCorpora == {"mixed"}

\* for row in work: the next row, and the entry of cse_search_paged for its
\* dork (lines 196-201); after the last row the loop and main end
NextRow ==
    /\ pc = "next"
    /\ IF row < Len(work)
       THEN /\ row' = row + 1
            /\ rows' = <<>>
            /\ summaries' = 0
            /\ corpus' \in BatchCorpora
            /\ pc' = "loop"
            /\ results' = <<>>
            /\ start' = 1
            /\ rank' = 1
            /\ num' = 0
            /\ attempt' = 0
            /\ err' = <<>>
            /\ returned' = <<>>
            /\ error' = <<>>
            /\ calls' = 0
            /\ faults' = 0
            /\ pageCalls' = 0
            /\ pageBackoffs' = 0
            /\ lastEv' = "none"
            /\ lastCall' = NoCall
            /\ status' = 0
            /\ zeroSeen' = FALSE
            /\ pageTransient' = TRUE
            /\ overfull' = FALSE
       ELSE /\ pc' = "finished"
            /\ UNCHANGED << row, rows, summaries, run_vars >>
    /\ UNCHANGED << total_results, retries, work, input, output, pair_vars >>

\* the rows written for the list cse_search_paged returned: one per record
\* whose URL is in the scope of the row's domain
RECURSIVE ScopedRows(_, _)
ScopedRows(list, domain) ==
    IF list = <<>> THEN <<>>
    ELSE LET r == Head(list)
             rest == ScopedRows(Tail(list), domain)
         IN  IF is_domain_scoped(r.url, domain)
             THEN << [domain |-> domain, rank |-> r.rank, title |-> r.title,
                      url |-> r.url, snippet_or_error |-> << r.snippet >>] >> \o rest
             ELSE rest

\* cse_search_paged has returned: the loop over results
WriteResults ==
    /\ pc = "done"
    /\ row >= 1
    /\ rows' = rows \o ScopedRows(returned, work[row].domain)
    /\ pc' = "next"
    /\ UNCHANGED << run_vars, work, row, summaries, input, output, pair_vars >>

\* f"{code}: {e}"
ErrorCell(code, e) == << code, ":" >> \o e

\* an except clause that goes on with the next row whatever the kind
WriteFailure_NoStop ==
    /\ pc = "failed"
    /\ row >= 1
    /\ LET code == classify_cse_error(error) IN
       /\ rows' = Append(rows, [domain |-> work[row].domain, rank |-> -1,
                                title |-> "", url |-> EmptyUrl,
                                snippet_or_error |-> ErrorCell(code, error)])
       /\ pc' = "next"
    /\ UNCHANGED << run_vars, work, row, summaries, input, output, pair_vars >>

\* an except clause that writes the error text without its kind
WriteFailure_NoKind ==
    /\ pc = "failed"
    /\ row >= 1
    /\ LET code == classify_cse_error(error) IN
       /\ rows' = Append(rows, [domain |-> work[row].domain, rank |-> -1,
                                title |-> "", url |-> EmptyUrl,
                                snippet_or_error |-> error])
       /\ pc' = IF code = "ERR_QUOTA_EXCEEDED" THEN "stopped" ELSE "next"
    /\ UNCHANGED << run_vars, work, row, summaries, input, output, pair_vars >>

\* cse_search_paged has raised: the except clause
WriteFailure ==
    /\ pc = "failed"
    /\ row >= 1
    /\ LET code == classify_cse_error(error) IN
       /\ rows' = Append(rows, [domain |-> work[row].domain, rank |-> -1,
                                title |-> "", url |-> EmptyUrl,
                                snippet_or_error |-> ErrorCell(code, error)])
       /\ pc' = IF code = "ERR_QUOTA_EXCEEDED" THEN "stopped" ELSE "next"
    /\ UNCHANGED << run_vars, work, row, summaries, input, output, pair_vars >>

\* main before the first row, --max-results and --retries as given
InitBatch ==
    /\ pc = "next"
    /\ total_results = MaxSmallTotal
    /\ retries \in 0..MaxRetries
    /\ corpus = "mixed"
    /\ Fresh
    /\ work \in WorkLists(MaxWork)
    /\ row = 0
    /\ rows = <<>>
    /\ summaries = 0
    /\ NoPair
    /\ input = <<>>
    /\ output = <<>>

\* logging.info("CSE_SUMMARY | ..."): no statement of main or of
\* cse_search_paged calls it, so it is no step of the batch
log_query_summary ==
    /\ summaries' = summaries + 1
    /\ UNCHANGED << pc, run_vars, work, row, rows, input, output, pair_vars >>

NextBatch ==
    \/ NextRow
    \/ WhileHead
    \/ RateLimitSleep
    \/ CallOk
    \/ CallHttpError
    \/ CallNetFault
    \/ CallOtherError
    \/ BackoffSleep
    \/ Return
    \/ WriteResults
    \/ WriteFailure

SpecBatch == InitBatch /\ [][NextBatch]_vars

BatchTypeOK ==
    /\ pc \in PcValues
    /\ row \in 0..Len(work)


\* C12: when a query has failed with an error classified ERR_QUOTA_EXCEEDED,
\* main stops: no further row is started and no further backend call is
\* made; when it has failed with any other kind and rows remain, the next
\* row is started and cse_search_paged is entered for it.
C12_QuotaStopsBatch ==
    [][ /\ (pc = "failed" /\ classify_cse_error(error) = "ERR_QUOTA_EXCEEDED")
           => (pc' = "stopped" /\ row' = row /\ calls' = calls)
        /\ (pc = "stopped") => (pc' = "stopped" /\ row' = row /\ calls' = calls)
        /\ (pc = "failed" /\ classify_cse_error(error) # "ERR_QUOTA_EXCEEDED")
           => pc' = "next"
        /\ (pc = "next" /\ error # <<>> /\ row < Len(work))
           => (row' = row + 1 /\ pc' = "loop" /\ calls' = 0)
      ]_vars

\* C12 witness: the batch has stopped on a quota failure of its first row
\* with another row left.
C12_Witness ==
    /\ pc = "stopped"
    /\ row = 1
    /\ Len(work) >= 2
    /\ classify_cse_error(error) = "ERR_QUOTA_EXCEEDED"

\* the kinds classify_cse_error can answer
ErrorKinds ==
    { "ERR_MISSING_ENV", "ERR_QUOTA_EXCEEDED", "ERR_INVALID_KEY", "ERR_RATE_LIMIT",
      "ERR_TIMEOUT", "ERR_FORBIDDEN", "ERR_UNKNOWN" }

\* C13: a query whose cse_search_paged call has raised has no row before the
\* except clause runs and exactly one row after it: rank -1, empty title and
\* url, and "<kind>: <text of the error>" in the last column.
C13_OneRowPerFailedQuery ==
    /\ pc = "failed" => rows = <<>>
    /\ (pc \in {"next", "stopped", "finished"} /\ error # <<>>) =>
          /\ Len(rows) = 1
          /\ rows[1].rank = -1
          /\ rows[1].title = ""
          /\ rows[1].url = EmptyUrl
          /\ Len(rows[1].snippet_or_error) = Len(error) + 2
          /\ rows[1].snippet_or_error[1] \in ErrorKinds
          /\ rows[1].snippet_or_error[2] = ":"
          /\ SubSeq(rows[1].snippet_or_error, 3, Len(error) + 2) = error

\* C13 witness: a query that failed on its second page, after a first page
\* with items, has its single row of rank -1.
C13_Witness ==
    /\ pc = "next"
    /\ error # <<>>
    /\ Len(results) >= 1
    /\ Len(rows) = 1
    /\ rows[1].rank = -1

\* C23: a query ends in one way only. The step that fails it returns no
\* list and leaves the accumulated records as they are; main then writes no
\* result row for it, whatever earlier pages had collected. A list is
\* returned only by the step that follows the end of the paging loop, with
\* no error raised, and until then the accumulated records are only
\* appended to, never normalized or dropped.
C23_FailureDiscardsPartialWork ==
    [][ /\ pc' = "failed" =>
              (returned' = <<>> /\ error' # <<>> /\ results' = results)
        /\ pc = "failed" =>
              (returned' = <<>> /\ \A i \in 1..Len(rows') : rows'[i].rank = -1)
        /\ (returned' # returned /\ pc # "next") =>
              (pc = "post" /\ pc' = "done" /\ error = <<>> /\ error' = <<>>)
        /\ pc \in {"loop", "rate", "call", "backoff"} =>
              SubSeq(results', 1, Len(results)) = results
        /\ pc' = "done" => error' = <<>>
      ]_vars

\* C23 witness: a query has failed with records of an earlier page
\* accumulated; nothing is returned and no row is written yet.
C23_Witness ==
    /\ pc = "failed"
    /\ row >= 1
    /\ Len(results) >= 2
    /\ start > 1
    /\ returned = <<>>
    /\ rows = <<>>

\* C14: when a query of the batch has ended, returned or failed, exactly one
\* summary record has been logged for it.
C14_OneSummaryPerQuery ==
    (pc \in {"next", "stopped"} /\ row >= 1) => summaries = 1

-----------------------------------------------------------------------------
(* is_domain_scoped applied to bounded (url, domain) pairs *)

\* the URLs handed to is_domain_scoped
ScopeUrls ==
    { [pad |-> FALSE, bad |-> FALSE, scheme |-> s, netloc |-> h, path |-> p,
       params |-> "", query |-> <<>>, fragment |-> ""] :
         s \in {"http", "https"},
         h \in {"x.org", "X.ORG", "www.x.org", "a.b.x.org", "A.B.X.ORG", "notx.org",
                "x.org.evil.net", "x.org:8443", "user@x.org", ""},
         p \in {"", "/p"} }
    \cup { [pad |-> FALSE, bad |-> TRUE, scheme |-> "http", netloc |-> "[x",
            path |-> p, params |-> "", query |-> <<>>, fragment |-> ""] :
              p \in {"", "/p"} }

\* the domains handed to it
ScopeDomains == {"x.org", "X.org", " X.ORG "}

InitScope ==
    /\ pc = "pure"
    /\ \E u \in ScopeUrls, d \in ScopeDomains : input = [url |-> u, domain |-> d]
    /\ output = <<>>
    /\ total_results = 1
    /\ retries = 0
    /\ corpus = "distinct"
    /\ Fresh
    /\ NoBatch
    /\ NoPair

ScopeCall ==
    /\ pc = "pure"
    /\ pc' = "done"
    /\ output' = is_domain_scoped(input.url, input.domain)
    /\ UNCHANGED << input, run_vars, batch_vars, pair_vars >>

NextScope ==
    \/ ScopeCall

SpecScope == InitScope /\ [][NextScope]_vars

\* the host of a netloc: what is left without "user@" and ":port", lower-cased
HostOf(netloc) ==
    CASE netloc = "x.org:8443" -> "x.org"
      [] netloc = "user@x.org" -> "x.org"
      [] OTHER -> LowerHost(netloc)

\* C15: is_domain_scoped is true exactly when the URL parses and its
\* lower-cased host is the trimmed, lower-cased domain or ends with "." and
\* that domain; a.b.x.org is in the scope of x.org, notx.org is not.
C15_ScopedIffHostInDomain ==
    pc = "done" =>
        LET host == HostOf(input.url.netloc)
            d == LowerDomain(input.domain)
        IN  /\ output = ( /\ ~input.url.bad
                          /\ (host = d \/ d \in DotSuffixes(host)) )
            /\ (input.url.netloc = "a.b.x.org" /\ d = "x.org") => output = TRUE
            /\ (input.url.netloc = "notx.org" /\ d = "x.org") => output = FALSE

\* what the code does guarantee: the test is on the netloc (the host with any
\* "user@" and ":port"), not on the host
C15_ScopedIffNetlocInDomain ==
    pc = "done" =>
        LET netloc == LowerHost(input.url.netloc)
            d == LowerDomain(input.domain)
        IN  output = ( /\ ~input.url.bad
                       /\ (netloc = d \/ d \in DotSuffixes(netloc)) )

\* every result row main has written for a query is in the scope of the
\* row's domain (checked under SpecBatch)
C15_RowsInScope ==
    \A i \in 1..Len(rows) :
        rows[i].rank >= 1 =>
            LET host == LowerHost(rows[i].url.netloc)
            IN  host \in {"x.org", "www.x.org", "a.b.x.org"}

-----------------------------------------------------------------------------
(* normalize_url applied to bounded URLs *)

\* the parameters the query strings are made of ("q" is given without "=")
QueryPairs ==
    { [k |-> "utm_source", v |-> "a", bare |-> FALSE],
      [k |-> "gclid", v |-> "", bare |-> FALSE],
      [k |-> "id", v |-> "1", bare |-> FALSE],
      [k |-> "q", v |-> "", bare |-> TRUE] }

\* the query strings of at most n parameters
Queries(n) == UNION { [1..len -> QueryPairs] : len \in 0..n }

\* the (netloc, path) pairs urlparse can give: after a netloc the path is
\* empty or starts with "/"
Locations ==
    ({"x.org", "X.ORG"} \X {"", "/p", "/p "}) \cup ({""} \X {"p", "/p"})

\* the URLs handed to normalize_url: parseable ones, one urlparse raises on,
\* the empty string and a blank string
NormUrls ==
    { [pad |-> pd, bad |-> FALSE, scheme |-> s, netloc |-> loc[1], path |-> loc[2],
       params |-> "", query |-> q, fragment |-> f] :
         pd \in BOOLEAN, s \in {"http", "HTTP"}, loc \in Locations,
         q \in Queries(MaxQuery), f \in {"", "top"} }
    \cup { [pad |-> FALSE, bad |-> TRUE, scheme |-> "http", netloc |-> "[x",
            path |-> "/p ", params |-> "", query |-> <<>>, fragment |-> f] :
              f \in {"", "top"} }
    \cup { EmptyUrl, [EmptyUrl EXCEPT !.pad = TRUE] }

InitNormalize ==
    /\ pc = "pure"
    /\ input \in NormUrls
    /\ output = <<>>
    /\ total_results = 1
    /\ retries = 0
    /\ corpus = "distinct"
    /\ Fresh
    /\ NoBatch
    /\ NoPair

\* normalize_url(u), and normalize_url applied to what it returned
NormalizeCall ==
    /\ pc = "pure"
    /\ pc' = "done"
    /\ output' = [once |-> normalize_url(input),
                  twice |-> normalize_url(normalize_url(input))]
    /\ UNCHANGED << input, run_vars, batch_vars, pair_vars >>

NextNormalize ==
    \/ NormalizeCall

SpecNormalize == InitNormalize /\ [][NextNormalize]_vars

\* C16: normalize_url(normalize_url(u)) = normalize_url(u) for every input,
\* empty and malformed ones included.
C16_Idempotent ==
    pc = "done" => output.twice = output.once

\* the (key, value) pairs of a query string, in order
PairsOf(q) == [i \in 1..Len(q) |-> << q[i].k, q[i].v >>]

\* what C17 says of the URL `out` returned for the parseable URL `u`
NormalForm(u, out) ==
    /\ out.fragment = ""
    /\ out.scheme \in {"http", "https", ""}
    /\ out.scheme = LowerHost(u.scheme)
    /\ out.netloc \in {"x.org", ""}
    /\ out.netloc = LowerHost(u.netloc)
    /\ \A i \in 1..Len(out.query) : out.query[i].k \notin TRACKING_KEYS
    /\ PairsOf(out.query) =
          PairsOf(SelectSeq(u.query, LAMBDA kv :
                     kv.k \notin {"utm_source", "utm_medium", "utm_campaign",
                                  "utm_term", "utm_content", "gclid", "fbclid",
                                  "yclid", "mc_cid", "mc_eid"}))
    /\ out.params = u.params

\* C17: for a parseable URL the result has no fragment, scheme and host in
\* lower case, no parameter with a tracking key, and the path and the other
\* parameters as given, in their order.
C17_NormalForm ==
    (pc = "done" /\ ~input.bad /\ Strip(input) # EmptyUrl) =>
        /\ NormalForm(Strip(input), output.once)
        /\ output.once.path = Strip(input).path

\* what the code does guarantee: the same except for the path, which for a
\* URL with an http(s) scheme and no host comes back absolute
C17_NormalFormButPath ==
    (pc = "done" /\ ~input.bad /\ Strip(input) # EmptyUrl) =>
        /\ NormalForm(Strip(input), output.once)
        /\ (input.netloc # "" => output.once.path = Strip(input).path)

-----------------------------------------------------------------------------
(* The backoff delays of successive retries of one page                    *)

\* delays are counted in units of 10^-DelayDigits seconds
DelayDigits == MaxRetries + 1

\* random.uniform(0.0, 0.7), in tenths of a second
Jitters == 0..7

\* a delay computed as if attempts were counted from 0
BackoffDelay_FromZero(a, jitter) ==
    16^(a - 1) * 10^(DelayDigits - (a - 1)) + jitter * 10^(DelayDigits - 1)

\* sleep_s = (backoff_base ** attempt) + random.uniform(0.0, 0.7), with the
\* default backoff_base = 1.6 = 16/10
BackoffDelay(a, jitter) ==
    16^a * 10^(DelayDigits - a) + jitter * 10^(DelayDigits - 1)

\* the retries after attempts a and a + 1 of one page, each with its jitter
InitBackoff ==
    /\ pc = "pure"
    /\ \E a \in 1..MaxRetries, j1 \in Jitters, j2 \in Jitters :
          input = [attempt |-> a, jitter |-> j1, next_jitter |-> j2]
    /\ output = <<>>
    /\ total_results = 1
    /\ retries = 0
    /\ corpus = "distinct"
    /\ Fresh
    /\ NoBatch
    /\ NoPair

BackoffPair ==
    /\ pc = "pure"
    /\ pc' = "done"
    /\ output' = [delay |-> BackoffDelay(input.attempt, input.jitter),
                  next_delay |-> BackoffDelay(input.attempt + 1, input.next_jitter)]
    /\ UNCHANGED << input, run_vars, batch_vars, pair_vars >>

NextBackoff ==
    \/ BackoffPair

SpecBackoff == InitBackoff /\ [][NextBackoff]_vars

\* C20: whatever the two jitter values, the delay after attempt a + 1 is
\* greater than the delay after attempt a.
C20_DelaysIncrease ==
    pc = "done" => output.next_delay > output.delay

\* C20 witness: the closest pair: after attempt 1 with jitter 0.7 (2.3 s) and
\* after attempt 2 with jitter 0 (2.56 s).
C20_Witness ==
    /\ pc = "done"
    /\ input = [attempt |-> 1, jitter |-> 7, next_jitter |-> 0]
    /\ output.delay = 23 * 10^(DelayDigits - 1)
    /\ output.next_delay = 256 * 10^(DelayDigits - 2)


-----------------------------------------------------------------------------
(* Two runs of cse_search_paged for different queries, their steps         *)
(* interleaved. The state of a run is the frame of its call: the arguments *)
(* and the locals of lines 196-211 (with session = None, as main calls it, *)
(* sess is a session of its own). The variables of the paging loop are the *)
(* frame of the run that is executing, parked is the frame of the other,   *)
(* and a context switch exchanges the two. The backend answers every call  *)
(* with HTTP 200 and the num items asked for, or with a network fault.     *)

\* the frame of the executing run
Frame ==
    [pc |-> pc, total_results |-> total_results, retries |-> retries,
     corpus |-> corpus, results |-> results, start |-> start, rank |-> rank,
     num |-> num, attempt |-> attempt, err |-> err, returned |-> returned,
     error |-> error, calls |-> calls, faults |-> faults,
     pageCalls |-> pageCalls, pageBackoffs |-> pageBackoffs,
     lastEv |-> lastEv, lastCall |-> lastCall, status |-> status,
     zeroSeen |-> zeroSeen, pageTransient |-> pageTransient,
     overfull |-> overfull]

\* the frame after line 201 of a run asked for T results of query c
FreshFrame(T, R, c) ==
    [pc |-> "loop", total_results |-> T, retries |-> R, corpus |-> c,
     results |-> <<>>, start |-> 1, rank |-> 1, num |-> 0, attempt |-> 0,
     err |-> <<>>, returned |-> <<>>, error |-> <<>>, calls |-> 0,
     faults |-> 0, pageCalls |-> 0, pageBackoffs |-> 0, lastEv |-> "none",
     lastCall |-> NoCall, status |-> 0, zeroSeen |-> FALSE,
     pageTransient |-> TRUE, overfull |-> FALSE]

\* the executing run continues from the frame f
Resume(f) ==
    /\ pc' = f.pc
    /\ total_results' = f.total_results
    /\ retries' = f.retries
    /\ corpus' = f.corpus
    /\ results' = f.results
    /\ start' = f.start
    /\ rank' = f.rank
    /\ num' = f.num
    /\ attempt' = f.attempt
    /\ err' = f.err
    /\ returned' = f.returned
    /\ error' = f.error
    /\ calls' = f.calls
    /\ faults' = f.faults
    /\ pageCalls' = f.pageCalls
    /\ pageBackoffs' = f.pageBackoffs
    /\ lastEv' = f.lastEv
    /\ lastCall' = f.lastCall
    /\ status' = f.status
    /\ zeroSeen' = f.zeroSeen
    /\ pageTransient' = f.pageTransient
    /\ overfull' = f.overfull

\* a context switch with rank a module-level counter of both runs
Switch_SharedRank ==
    /\ active \in {1, 2}
    /\ parked' = Frame
    /\ Resume([parked EXCEPT !.rank = rank])
    /\ active' = 3 - active
    /\ UNCHANGED << input, output, batch_vars >>

\* a context switch between the two runs: each keeps its own frame
Switch ==
    /\ active \in {1, 2}
    /\ parked' = Frame
    /\ Resume(parked)
    /\ active' = 3 - active
    /\ UNCHANGED << input, output, batch_vars >>

\* the two queries and what is asked of them
PairQueries == << "distinct", "variants" >>
PairTotals == << {PageSize + MaxExtraTotal}, 1..MaxSmallTotal >>

InitPair ==
    /\ pc = "loop"
    /\ total_results \in PairTotals[1]
    /\ retries \in 1..MaxRetries
    /\ corpus = PairQueries[1]
    /\ Fresh
    /\ NoBatch
    /\ \E T \in PairTotals[2] : \E R \in 1..MaxRetries :
          parked = FreshFrame(T, R, PairQueries[2])
    /\ active = 1
    /\ input = <<>>
    /\ output = <<>>

NextPair ==
    \/ WhileHead
    \/ RateLimitSleep
    \/ CallFull
    \/ CallNetFault
    \/ BackoffSleep
    \/ Return
    \/ Switch

SpecPair == InitPair /\ [][NextPair]_vars

PairTypeOK ==
    /\ active \in {1, 2}
    /\ parked.pc \in PcValues
    /\ pc \in PcValues


\* what a run alone has collected of query c after n items of full pages
AloneResults(c, n) == Records(Items(c, 1, n), 1)

\* the frame f is one a run alone reaches against the same answers: its
\* records are the first items of its own query ranked 1, 2, ..., the rank
\* counter is one past them, start is 1 + 10 * (pages closed), num is what is
\* still missing capped at 10, attempt counts the calls of the open page, and
\* the list returned is dedup_results of the run's own records
AsAlone(f, c) ==
    LET n == Len(f.results)
        open == f.pc \in {"rate", "call", "backoff"} IN
    /\ f.corpus = c
    /\ f.pc # "done" =>
          /\ f.results = AloneResults(c, n)
          /\ f.rank = n + 1
          /\ f.returned = <<>>
          /\ f.start = 1 + PageSize * Ceil(n, PageSize)
    /\ open =>
          /\ n % PageSize = 0
          /\ f.num = Min(PageSize, f.total_results - n)
          /\ f.attempt = f.pageCalls + (IF f.pc = "backoff" THEN 0 ELSE 1)
          /\ f.attempt \in 1..f.retries
          /\ f.pageCalls >= 1 => f.lastCall = [start |-> f.start, num |-> f.num]
    /\ f.pc = "done" =>
          /\ f.returned = dedup_results(AloneResults(c, f.total_results))
          /\ f.results = f.returned
          /\ f.rank = f.total_results + 1
          /\ f.start = 1 + PageSize * Ceil(f.total_results, PageSize)
          /\ f.calls = Ceil(f.total_results, PageSize) + f.faults
    /\ f.pc = "failed" => (f.error # <<>> /\ f.attempt = f.retries)

\* the frame of run r (1 or 2)
FrameOf(r) == IF active = r THEN Frame ELSE parked

=============================================================================
